---- MODULE Spec2Model ----
(***************************************************************************)
(* A model of scripts/refresh_metric_views.py: the command dispatch of     *)
(* main(), pipeline discovery (DESCRIBE EXTENDED plus a regular-expression *)
(* scan of the rows), warehouse resolution and the refresh loop.           *)
(*                                                                         *)
(* Python strings are sequences of one-character strings, so that the two  *)
(* regular expressions and the `in` test are computed on the characters.   *)
(* The remote workspace service is the environment: each remote call      *)
(* answers nondeterministically (a value or an exception).                 *)
(* WorkspaceClient() itself is taken to return a client whenever the       *)
(* import succeeds (authentication is the client library's business).     *)
(***************************************************************************)
EXTENDS Integers, Sequences, FiniteSets, TLC

VARIABLES
    argv,          \* sys.argv[1:], a sequence of strings
    sdkInstalled,  \* whether `from databricks.sdk import WorkspaceClient` succeeds
    env,           \* os.environ, the two variables _get_warehouse_id reads
    pc,            \* position of the process in main()
    i,             \* index in argv of the next view of a discovery loop
    j,             \* index in pipeline_ids of the next id of refresh_pipelines
    pipeline_ids,  \* the list refresh_pipelines works on
    calls,         \* the remote calls made so far, in order
    out,           \* the lines printed so far, in order
    exitStatus,    \* the process exit status once pc = "exit", -1 before
    discovered,    \* history: [view, ret] of every discover_pipeline call that returned
    fnIn,          \* the arguments of a single function call (function specifications)
    fnOut          \* what that call returned

vars == <<argv, sdkInstalled, env, pc, i, j, pipeline_ids, calls, out, exitStatus,
          discovered, fnIn, fnOut>>

-----------------------------------------------------------------------------
(* Bounds of the model *)

MaxArgs == 3
MaxRows == 2
MaxWarehouses == 2

-----------------------------------------------------------------------------
(* String constants of the script *)

\* Python's None: a value that is no string (its one element is not a character)
None == <<"None">>

DiscoverFlag == <<"-","-","d","i","s","c","o","v","e","r">>
RefreshFlag == <<"-","-","r","e","f","r","e","s","h">>
PipelinesLit == <<"p","i","p","e","l","i","n","e","s","/">>
WarehousesLit == <<"/","w","a","r","e","h","o","u","s","e","s","/">>
DescribePrefix == <<"D","E","S","C","R","I","B","E"," ","E","X","T","E","N","D","E","D"," ">>
WaitTimeout == <<"3","0","s">>
ResolutionMsg == <<"C","o","u","l","d"," ","n","o","t"," ","d","e","t","e","r","m","i","n","e"," ","w","a","r","e","h","o","u","s","e"," ","I","D","."," ","S","e","t"," ","D","A","T","A","B","R","I","C","K","S","_","W","A","R","E","H","O","U","S","E","_","I","D"," ","o","r"," ","D","A","T","A","B","R","I","C","K","S","_","H","T","T","P","_","P","A","T","H"," ","e","n","v","i","r","o","n","m","e","n","t"," ","v","a","r","i","a","b","l","e",".">>

\* [a-f0-9]
HexClass == {"a","b","c","d","e","f","0","1","2","3","4","5","6","7","8","9"}
\* [a-f0-9-]
HexHyphenClass == HexClass \cup {"-"}

\* Python truthiness of a string or None
Truthy(x) == x # None /\ x # <<>>

-----------------------------------------------------------------------------
(* re.search and the `in` operator *)

\* lit occurs in s at position p
LitAt(lit, s, p) ==
    /\ p + Len(lit) - 1 <= Len(s)
    /\ SubSeq(s, p, p + Len(lit) - 1) = lit

\* `lit in s`
Contains(lit, s) == \E p \in 1..Len(s) : LitAt(lit, s, p)

\* the last index of the greedy run class+ that starts at index k (s[k] is in class)
RECURSIVE GreedyEnd(_, _, _)
GreedyEnd(class, s, k) ==
    IF k + 1 <= Len(s) /\ s[k + 1] \in class
    THEN GreedyEnd(class, s, k + 1)
    ELSE k

\* the pattern lit([class]+) matches at position p
MatchAt(lit, class, s, p) ==
    /\ LitAt(lit, s, p)
    /\ p + Len(lit) <= Len(s)
    /\ s[p + Len(lit)] \in class

\* re.search(lit([class]+), s): group(1) of the leftmost match, tried from
\* position p on, or None
RECURSIVE SearchFrom(_, _, _, _)
SearchFrom(lit, class, s, p) ==
    IF p > Len(s) THEN None
    ELSE IF MatchAt(lit, class, s, p)
         THEN SubSeq(s, p + Len(lit), GreedyEnd(class, s, p + Len(lit)))
         ELSE SearchFrom(lit, class, s, p + 1)

ReSearch(lit, class, s) == SearchFrom(lit, class, s, 1)

-----------------------------------------------------------------------------
(* str(row): a row is a list of cells, each a string or None *)

PyRepr(cell) ==
    IF cell = None THEN <<"N","o","n","e">>
    ELSE <<"'">> \o cell \o <<"'">>

RECURSIVE JoinRepr(_, _)
JoinRepr(row, k) ==
    IF k > Len(row) THEN <<>>
    ELSE (IF k > 1 THEN <<",", " ">> ELSE <<>>) \o PyRepr(row[k]) \o JoinRepr(row, k + 1)

PyStr(row) == <<"[">> \o JoinRepr(row, 1) \o <<"]">>

-----------------------------------------------------------------------------
(* Printed lines and remote calls *)

Line(kind, text) == [kind |-> kind, text |-> text]
\* a remote call and whether it raised an exception
Call(op, args, raised) == [op |-> op, args |-> args, raised |-> raised]

\* get_client(): the client, or the two instructional lines and sys.exit(1)
GetClient(sdk) ==
    [ok |-> sdk,
     lines |-> IF sdk THEN <<>>
               ELSE <<Line("SdkNotInstalled", <<>>), Line("InstallWith", <<>>)>>]

-----------------------------------------------------------------------------
(* _get_warehouse_id(client) *)

\* FirstRunning with the state test lost: the first warehouse, whatever its state
FirstRunningAnyState(warehouses, k) ==
    IF k > Len(warehouses) THEN None ELSE warehouses[k].id

\* the loop of lines 95-97: the id of the first warehouse, from index k on,
\* whose state is RUNNING (wh.state None is the state "NONE"), or None
RECURSIVE FirstRunning(_, _)
FirstRunning(warehouses, k) ==
    IF k > Len(warehouses) THEN None
    ELSE IF warehouses[k].state # "NONE" /\ warehouses[k].state = "RUNNING"
         THEN warehouses[k].id
         ELSE FirstRunning(warehouses, k + 1)

\* the try block of lines 93-101: [found, id]; an exception of the list call
\* is swallowed and leaves nothing found
ListWarehouses(listResp) ==
    IF listResp.raises THEN [found |-> FALSE, id |-> None]
    ELSE IF FirstRunning(listResp.warehouses, 1) # None
         THEN [found |-> TRUE, id |-> FirstRunning(listResp.warehouses, 1)]
         ELSE IF Len(listResp.warehouses) > 0
              THEN [found |-> TRUE, id |-> listResp.warehouses[1].id]
              ELSE [found |-> FALSE, id |-> None]

\* e: the environment; listResp: what client.warehouses.list() answers if called.
\* [raised, id, calls]: raised is the ValueError of line 103
GetWarehouseId(e, listResp) ==
    LET warehouse_id == e.DATABRICKS_WAREHOUSE_ID
        http_path == IF e.DATABRICKS_HTTP_PATH = None THEN <<>>
                     ELSE e.DATABRICKS_HTTP_PATH
        match == ReSearch(WarehousesLit, HexClass, http_path)
        listed == ListWarehouses(listResp)
        listCall == <<Call("warehouses.list", <<>>, listResp.raises)>>
    IN  IF Truthy(warehouse_id)
        THEN [raised |-> FALSE, id |-> warehouse_id, calls |-> <<>>]
        ELSE IF match # None
        THEN [raised |-> FALSE, id |-> match, calls |-> <<>>]
        ELSE IF listed.found
        THEN [raised |-> FALSE, id |-> listed.id, calls |-> listCall]
        ELSE [raised |-> TRUE, id |-> None, calls |-> listCall]

-----------------------------------------------------------------------------
(* discover_pipeline(metric_view_name) *)

\* ScanRows returning at the first row that contains "pipelines/", matched or not
ScanRowsStopAtFirst(rows, k) ==
    LET hits == {m \in k..Len(rows) : Contains(PipelinesLit, PyStr(rows[m]))}
        first == CHOOSE m \in hits : \A n \in hits : m <= n
    IN  IF hits = {} THEN None
        ELSE ReSearch(PipelinesLit, HexHyphenClass, PyStr(rows[first]))

\* the loop of lines 54-63 from row k on: the pipeline id of the first row
\* whose text contains "pipelines/" and matches the pattern, or None
RECURSIVE ScanRows(_, _)
ScanRows(rows, k) ==
    IF k > Len(rows) THEN None
    ELSE LET row_str == PyStr(rows[k])
             match == ReSearch(PipelinesLit, HexHyphenClass, row_str)
         IN  IF Contains(PipelinesLit, row_str) /\ match # None
             THEN match
             ELSE ScanRows(rows, k + 1)

\* ScanResult without the hint of line 65
ScanResultNoHint(resp) ==
    LET pid == IF resp.kind = "data" /\ Len(resp.rows) > 0
               THEN ScanRows(resp.rows, 1)
               ELSE None
    IN  IF pid # None
        THEN [ret |-> pid, lines |-> <<Line("FoundPipeline", pid)>>]
        ELSE [ret |-> None, lines |-> <<>>]

\* lines 53-66, once execute_statement has returned `resp`:
\* resp.kind is "result_none" (result.result is None), "data_none"
\* (data_array is None) or "data" (data_array is resp.rows)
ScanResult(resp) ==
    LET pid == IF resp.kind = "data" /\ Len(resp.rows) > 0
               THEN ScanRows(resp.rows, 1)
               ELSE None
    IN  IF pid # None
        THEN [ret |-> pid, lines |-> <<Line("FoundPipeline", pid)>>]
        ELSE [ret |-> None, lines |-> <<Line("NoPipelineFound", <<>>)>>]

\* the try block of lines 45-66: [raised, msg, ret, lines, calls]
\* _get_warehouse_id is evaluated as an argument of execute_statement, inside the try
TryDescribe(view, e, listResp, resp) ==
    LET wh == GetWarehouseId(e, listResp)
        stmt == Call("execute_statement", <<wh.id, DescribePrefix \o view, WaitTimeout>>,
                     resp.kind = "raise")
        scan == ScanResult(resp)
    IN  IF wh.raised
        THEN [raised |-> TRUE, msg |-> ResolutionMsg, ret |-> None,
              lines |-> <<>>, calls |-> wh.calls]
        ELSE IF resp.kind = "raise"
        THEN [raised |-> TRUE, msg |-> resp.msg, ret |-> None,
              lines |-> <<>>, calls |-> wh.calls \o <<stmt>>]
        ELSE [raised |-> FALSE, msg |-> <<>>, ret |-> scan.ret,
              lines |-> scan.lines, calls |-> wh.calls \o <<stmt>>]

\* the handler of lines 68-74
ExceptLines(view, msg) ==
    <<Line("Error", msg), Line("Blank", <<>>), Line("Alternatively", <<>>),
      Line("ManualSql", DescribePrefix \o view \o <<";">>), Line("LookFor", <<>>)>>

\* discover_pipeline without its except clause: an exception of the try block
\* leaves the function
DiscoverPipelineNoCatch(view, sdk, e, listResp, resp) ==
    LET client == GetClient(sdk)
        looking == <<Line("LookingUp", view)>>
        try == TryDescribe(view, e, listResp, resp)
    IN  IF ~client.ok
        THEN [exited |-> TRUE, raised |-> FALSE, ret |-> None,
              lines |-> client.lines, calls |-> <<>>]
        ELSE [exited |-> FALSE, raised |-> try.raised, ret |-> try.ret,
              lines |-> looking \o try.lines, calls |-> try.calls]

\* discover_pipeline with the warehouse resolved before the try block: the
\* resolution error leaves the function, a query error is still caught
DiscoverPipelineResolveOutside(view, sdk, e, listResp, resp) ==
    LET client == GetClient(sdk)
        looking == <<Line("LookingUp", view)>>
        try == TryDescribe(view, e, listResp, resp)
        unresolved == GetWarehouseId(e, listResp).raised
    IN  IF ~client.ok
        THEN [exited |-> TRUE, raised |-> FALSE, ret |-> None,
              lines |-> client.lines, calls |-> <<>>]
        ELSE IF try.raised /\ ~unresolved
        THEN [exited |-> FALSE, raised |-> FALSE, ret |-> None,
              lines |-> looking \o try.lines \o ExceptLines(view, try.msg),
              calls |-> try.calls]
        ELSE [exited |-> FALSE, raised |-> try.raised, ret |-> try.ret,
              lines |-> looking \o try.lines, calls |-> try.calls]

\* discover_pipeline: [exited, raised, ret, lines, calls]. exited: get_client
\* ended the process; raised: an exception left the function
DiscoverPipeline(view, sdk, e, listResp, resp) ==
    LET client == GetClient(sdk)
        looking == <<Line("LookingUp", view)>>
        try == TryDescribe(view, e, listResp, resp)
    IN  IF ~client.ok
        THEN [exited |-> TRUE, raised |-> FALSE, ret |-> None,
              lines |-> client.lines, calls |-> <<>>]
        ELSE IF try.raised
        THEN [exited |-> FALSE, raised |-> FALSE, ret |-> None,
              lines |-> looking \o try.lines \o ExceptLines(view, try.msg),
              calls |-> try.calls]
        ELSE [exited |-> FALSE, raised |-> FALSE, ret |-> try.ret,
              lines |-> looking \o try.lines, calls |-> try.calls]

-----------------------------------------------------------------------------
(* Inputs: arguments, environments and answers of the remote service *)

ViewA == <<"c",".","s",".","v">>
IdB == <<"a","1">>
ArgPool == {DiscoverFlag, RefreshFlag, ViewA, IdB}

SeqsUpTo(S, n) == UNION {[1..m -> S] : m \in 0..n}

PathHit == <<"/","s","q","l","/","1",".","0","/","w","a","r","e","h","o","u","s","e","s","/","a","b","c","1","2","3">>
PathUpper == <<"/","s","q","l","/","1",".","0","/","w","a","r","e","h","o","u","s","e","s","/","X","Y","Z">>
PathTail == <<"/","s","q","l","/","1",".","0","/","w","a","r","e","h","o","u","s","e","s","/","a","b","9","-","z">>
PathOther == <<"/","s","q","l","/","p","r","o","t","o","c","o","l","v","1","/","o","/","1">>
WidPool == {None, <<>>, <<"a","b","c","1","2","3">>}
PathPool == {None, <<>>, PathHit, PathUpper, PathTail, PathOther}
EnvPool == [DATABRICKS_WAREHOUSE_ID : WidPool, DATABRICKS_HTTP_PATH : PathPool]
\* the environments of the whole-program specification
MainEnvs == {[DATABRICKS_WAREHOUSE_ID |-> None, DATABRICKS_HTTP_PATH |-> None],
             [DATABRICKS_WAREHOUSE_ID |-> None, DATABRICKS_HTTP_PATH |-> PathTail],
             [DATABRICKS_WAREHOUSE_ID |-> <<"a","b","c","1","2","3">>, DATABRICKS_HTTP_PATH |-> PathHit]}

W1 == <<"w","1">>
W2 == <<"w","2">>
WhPool == [id : {W1, W2}, state : {"RUNNING", "STOPPED", "NONE"}]
ListResponses ==
    {[raises |-> TRUE, warehouses |-> <<>>]}
    \cup {[raises |-> FALSE, warehouses |-> ws] : ws \in SeqsUpTo(WhPool, MaxWarehouses)}
MainListResponses ==
    {[raises |-> TRUE, warehouses |-> <<>>],
     [raises |-> FALSE, warehouses |-> <<>>],
     [raises |-> FALSE, warehouses |-> <<[id |-> W1, state |-> "STOPPED"],
                                         [id |-> W2, state |-> "RUNNING"]>>]}

Boom == <<"b","o","o","m">>
RowPlain == <<<<"c","o","l">>, <<"i","n","t">>>>
RowUrl == <<<<"u","/","p","i","p","e","l","i","n","e","s","/","3","f","-","9","a","/","x">>>>
RowUrlB == <<<<"p","i","p","e","l","i","n","e","s","/","b","2">>>>
RowBare == <<<<"p","i","p","e","l","i","n","e","s","/">>>>
RowUpper == <<<<"p","i","p","e","l","i","n","e","s","/","X","Y">>>>
RowTwice == <<<<"p","i","p","e","l","i","n","e","s","/","z","z"," ","p","i","p","e","l","i","n","e","s","/","c","4">>>>
RowHyphen == <<None, <<"p","i","p","e","l","i","n","e","s","/","-">>>>
RowSplit == <<<<"p","i","p","e","l","i","n","e","s","/">>, <<"d","5">>>>
RowMixed == <<<<"p","i","p","e","l","i","n","e","s","/","3","F","a">>>>
RowPool == {RowPlain, RowUrl, RowUrlB, RowBare, RowUpper, RowTwice, RowHyphen,
            RowSplit, RowMixed}
Raise(msg) == [kind |-> "raise", msg |-> msg, rows |-> <<>>]
Answer(kind, rows) == [kind |-> kind, msg |-> <<>>, rows |-> rows]
QueryResponses ==
    {Raise(Boom), Answer("result_none", <<>>), Answer("data_none", <<>>)}
    \cup {Answer("data", rows) : rows \in SeqsUpTo(RowPool, MaxRows)}
MainQueryResponses ==
    {Raise(Boom), Answer("result_none", <<>>), Answer("data", <<>>),
     Answer("data", <<RowPlain, RowBare>>),
     Answer("data", <<RowBare, RowUrl>>),
     Answer("data", <<RowUrlB>>)}

-----------------------------------------------------------------------------
(* The process: main() *)

Init ==
    /\ argv \in SeqsUpTo(ArgPool, MaxArgs)
    /\ sdkInstalled \in BOOLEAN
    /\ env \in MainEnvs
    /\ pc = "main"
    /\ i = 0
    /\ j = 0
    /\ pipeline_ids = <<>>
    /\ calls = <<>>
    /\ out = <<>>
    /\ exitStatus = -1
    /\ discovered = <<>>
    /\ fnIn = <<>>
    /\ fnOut = <<>>

\* sys.exit(status), or the normal end of main() (status 0)
Exit(status, lines) ==
    /\ pc' = "exit"
    /\ exitStatus' = status
    /\ out' = out \o lines

\* lines 123-134: no argument
Usage ==
    /\ pc = "main"
    /\ Len(argv) < 1
    /\ Exit(1, <<Line("Usage", <<>>)>>)
    /\ UNCHANGED <<argv, sdkInstalled, env, i, j, pipeline_ids, calls, discovered, fnIn, fnOut>>

\* lines 136-139: --discover, and the check of its operand
EnterDiscover ==
    /\ pc = "main"
    /\ Len(argv) >= 1
    /\ argv[1] = DiscoverFlag
    /\ IF Len(argv) < 2
       THEN /\ Exit(1, <<Line("DiscoverRequires", <<>>)>>)
            /\ UNCHANGED i
       ELSE /\ pc' = "discover"
            /\ i' = 2
            /\ UNCHANGED <<out, exitStatus>>
    /\ UNCHANGED <<argv, sdkInstalled, env, j, pipeline_ids, calls, discovered, fnIn, fnOut>>

\* lines 143-147: --refresh, and the check of its operand
EnterRefresh ==
    /\ pc = "main"
    /\ Len(argv) >= 1
    /\ argv[1] # DiscoverFlag
    /\ argv[1] = RefreshFlag
    /\ IF Len(argv) < 2
       THEN /\ Exit(1, <<Line("RefreshRequires", <<>>)>>)
            /\ UNCHANGED i
       ELSE /\ pc' = "refresh_discover"
            /\ i' = 2
            /\ UNCHANGED <<out, exitStatus>>
    /\ pipeline_ids' = <<>>
    /\ UNCHANGED <<argv, sdkInstalled, env, j, calls, discovered, fnIn, fnOut>>

\* refresh_pipelines working on the distinct ids only
CallRefreshPipelinesDedup(ids, lines) ==
    LET client == GetClient(sdkInstalled)
        firsts == SelectSeq([k \in 1..Len(ids) |-> <<k, ids[k]>>],
                            LAMBDA x : \A m \in 1..(x[1] - 1) : ids[m] # x[2])
    IN  /\ pipeline_ids' = [k \in 1..Len(firsts) |-> firsts[k][2]]
        /\ IF client.ok
           THEN /\ pc' = "refresh_pipelines"
                /\ j' = 1
                /\ out' = out \o lines
                /\ UNCHANGED exitStatus
           ELSE /\ Exit(1, lines \o client.lines)
                /\ UNCHANGED j

\* refresh_pipelines(ids) up to its loop (line 111): get_client()
CallRefreshPipelines(ids, lines) ==
    LET client == GetClient(sdkInstalled)
    IN  /\ pipeline_ids' = ids
        /\ IF client.ok
           THEN /\ pc' = "refresh_pipelines"
                /\ j' = 1
                /\ out' = out \o lines
                /\ UNCHANGED exitStatus
           ELSE /\ Exit(1, lines \o client.lines)
                /\ UNCHANGED j

\* the direct mode taking sys.argv[2:] for the ids
EnterDirectSkipFirst ==
    /\ pc = "main"
    /\ Len(argv) >= 1
    /\ argv[1] # DiscoverFlag
    /\ argv[1] # RefreshFlag
    /\ CallRefreshPipelines(Tail(argv), <<>>)
    /\ UNCHANGED <<argv, sdkInstalled, env, i, calls, discovered, fnIn, fnOut>>

\* lines 158-161: every argument is a pipeline id
EnterDirect ==
    /\ pc = "main"
    /\ Len(argv) >= 1
    /\ argv[1] # DiscoverFlag
    /\ argv[1] # RefreshFlag
    /\ CallRefreshPipelines(argv, <<>>)
    /\ UNCHANGED <<argv, sdkInstalled, env, i, calls, discovered, fnIn, fnOut>>

\* one call discover_pipeline(argv[i]) of a loop; `keep` says whether the loop
\* collects the result (lines 149-151) or drops it (line 141)
DiscoverStep(keep) ==
    \E listResp \in MainListResponses, resp \in MainQueryResponses :
        LET r == DiscoverPipeline(argv[i], sdkInstalled, env, listResp, resp)
        IN  /\ calls' = calls \o r.calls
            /\ IF r.exited
               THEN /\ Exit(1, r.lines)
                    /\ UNCHANGED <<i, pipeline_ids, discovered>>
               ELSE IF r.raised
               THEN /\ Exit(1, r.lines \o <<Line("Traceback", <<>>)>>)
                    /\ UNCHANGED <<i, pipeline_ids, discovered>>
               ELSE /\ out' = out \o r.lines
                    /\ discovered' = Append(discovered, [view |-> argv[i], ret |-> r.ret])
                    /\ i' = i + 1
                    /\ pipeline_ids' = IF keep /\ Truthy(r.ret)
                                       THEN Append(pipeline_ids, r.ret)
                                       ELSE pipeline_ids
                    /\ UNCHANGED <<pc, exitStatus>>

\* lines 140-141: one iteration of the --discover loop
DiscoverNext ==
    /\ pc = "discover"
    /\ i <= Len(argv)
    /\ DiscoverStep(FALSE)
    /\ UNCHANGED <<argv, sdkInstalled, env, j, fnIn, fnOut>>

\* the --discover mode reporting "nothing found" in its exit status
DiscoverEndReflect ==
    /\ pc = "discover"
    /\ i > Len(argv)
    /\ Exit(IF \A k \in 1..Len(discovered) : discovered[k].ret = None THEN 1 ELSE 0, <<>>)
    /\ UNCHANGED <<argv, sdkInstalled, env, i, j, pipeline_ids, calls, discovered, fnIn, fnOut>>

\* the --discover loop is over: main() returns
DiscoverEnd ==
    /\ pc = "discover"
    /\ i > Len(argv)
    /\ Exit(0, <<>>)
    /\ UNCHANGED <<argv, sdkInstalled, env, i, j, pipeline_ids, calls, discovered, fnIn, fnOut>>

\* lines 148-151: one iteration of the --refresh discovery loop
RefreshDiscoverNext ==
    /\ pc = "refresh_discover"
    /\ i <= Len(argv)
    /\ DiscoverStep(TRUE)
    /\ UNCHANGED <<argv, sdkInstalled, env, j, fnIn, fnOut>>

\* lines 152-157: the --refresh discovery loop is over
RefreshCollected ==
    /\ pc = "refresh_discover"
    /\ i > Len(argv)
    /\ IF Len(pipeline_ids) > 0
       THEN CallRefreshPipelines(pipeline_ids, <<Line("Blank", <<>>)>>)
       ELSE /\ Exit(1, <<Line("NoPipelinesToRefresh", <<>>)>>)
            /\ UNCHANGED <<j, pipeline_ids>>
    /\ UNCHANGED <<argv, sdkInstalled, env, i, calls, discovered, fnIn, fnOut>>

\* the iteration printing no outcome line when the call raises
StartUpdateStepSilent(pipeline_id, raises) ==
    /\ calls' = Append(calls, Call("start_update", <<pipeline_id>>, raises))
    /\ out' = out \o (IF raises THEN <<Line("StartingRefresh", pipeline_id)>>
                      ELSE <<Line("StartingRefresh", pipeline_id),
                             Line("RefreshStarted", <<>>)>>)

\* lines 113-119: one iteration of the loop of refresh_pipelines; the remote
\* call returns or raises
StartUpdateStep(pipeline_id, raises) ==
    /\ calls' = Append(calls, Call("start_update", <<pipeline_id>>, raises))
    /\ out' = out \o <<Line("StartingRefresh", pipeline_id),
                       IF raises THEN Line("RefreshError", Boom)
                       ELSE Line("RefreshStarted", <<>>)>>

\* the loop without its try/except: a raising call ends the process
StartUpdateUncaught ==
    /\ pc = "refresh_pipelines"
    /\ j <= Len(pipeline_ids)
    /\ \E raises \in BOOLEAN :
        /\ calls' = Append(calls, Call("start_update", <<pipeline_ids[j]>>, raises))
        /\ IF raises
           THEN /\ Exit(1, <<Line("StartingRefresh", pipeline_ids[j]),
                             Line("Traceback", <<>>)>>)
                /\ UNCHANGED j
           ELSE /\ out' = out \o <<Line("StartingRefresh", pipeline_ids[j]),
                                   Line("RefreshStarted", <<>>)>>
                /\ j' = j + 1
                /\ UNCHANGED <<pc, exitStatus>>
    /\ UNCHANGED <<argv, sdkInstalled, env, i, pipeline_ids, discovered, fnIn, fnOut>>

StartUpdate ==
    /\ pc = "refresh_pipelines"
    /\ j <= Len(pipeline_ids)
    /\ \E raises \in BOOLEAN : StartUpdateStep(pipeline_ids[j], raises)
    /\ j' = j + 1
    /\ UNCHANGED <<argv, sdkInstalled, env, pc, i, pipeline_ids, exitStatus, discovered, fnIn, fnOut>>

\* refresh_pipelines returns, and main() with it
RefreshReturn ==
    /\ pc = "refresh_pipelines"
    /\ j > Len(pipeline_ids)
    /\ Exit(0, <<>>)
    /\ UNCHANGED <<argv, sdkInstalled, env, i, j, pipeline_ids, calls, discovered, fnIn, fnOut>>

Next ==
    \/ Usage
    \/ EnterDiscover
    \/ EnterRefresh
    \/ EnterDirect
    \/ DiscoverNext
    \/ DiscoverEnd
    \/ RefreshDiscoverNext
    \/ RefreshCollected
    \/ StartUpdate
    \/ RefreshReturn

Spec == Init /\ [][Next]_vars

-----------------------------------------------------------------------------
(* Single calls of _get_warehouse_id and of discover_pipeline, on wider inputs *)

Idle ==
    /\ argv = <<>>
    /\ sdkInstalled = TRUE
    /\ env = [DATABRICKS_WAREHOUSE_ID |-> None, DATABRICKS_HTTP_PATH |-> None]
    /\ i = 0
    /\ j = 0
    /\ pipeline_ids = <<>>
    /\ calls = <<>>
    /\ out = <<>>
    /\ exitStatus = -1
    /\ discovered = <<>>

InitWh ==
    /\ Idle
    /\ pc = "call"
    /\ fnIn \in [e : EnvPool, listResp : ListResponses]
    /\ fnOut = <<>>

CallGetWarehouseId ==
    /\ pc = "call"
    /\ pc' = "returned"
    /\ fnOut' = GetWarehouseId(fnIn.e, fnIn.listResp)
    /\ UNCHANGED <<argv, sdkInstalled, env, i, j, pipeline_ids, calls, out, exitStatus,
                   discovered, fnIn>>

NextWh == CallGetWarehouseId

SpecWh == InitWh /\ [][NextWh]_vars

InitDiscover ==
    /\ Idle
    /\ pc = "call"
    /\ fnIn \in [view : {ViewA, IdB}, sdk : BOOLEAN, e : MainEnvs,
                 listResp : MainListResponses, resp : QueryResponses]
    /\ fnOut = <<>>

CallDiscoverPipeline ==
    /\ pc = "call"
    /\ pc' = "returned"
    /\ fnOut' = DiscoverPipeline(fnIn.view, fnIn.sdk, fnIn.e, fnIn.listResp, fnIn.resp)
    /\ UNCHANGED <<argv, sdkInstalled, env, i, j, pipeline_ids, calls, out, exitStatus,
                   discovered, fnIn>>

NextDiscover == CallDiscoverPipeline

SpecDiscover == InitDiscover /\ [][NextDiscover]_vars

-----------------------------------------------------------------------------
(* Vocabulary of the properties *)

IsPrefix(a, b) == Len(a) <= Len(b) /\ a = SubSeq(b, 1, Len(a))

DiscoverMode == Len(argv) >= 2 /\ argv[1] = DiscoverFlag
RefreshMode == Len(argv) >= 2 /\ argv[1] = RefreshFlag
DirectMode == Len(argv) >= 1 /\ argv[1] # DiscoverFlag /\ argv[1] # RefreshFlag

\* the view arguments
Views == SubSeq(argv, 2, Len(argv))
\* the views discover_pipeline has returned for, in call order
DiscoveredViews == [k \in 1..Len(discovered) |-> discovered[k].view]
\* the pipeline ids the discoveries returned, in call order
Resolved == SelectSeq(discovered, LAMBDA d : d.ret # None)
ResolvedIds == [k \in 1..Len(Resolved) |-> Resolved[k].ret]

CallsOf(op) == SelectSeq(calls, LAMBDA c : c.op = op)
StartCalls == CallsOf("start_update")
StartArgs == [k \in 1..Len(StartCalls) |-> StartCalls[k].args[1]]
LinesOf(kinds) == SelectSeq(out, LAMBDA l : l.kind \in kinds)
Printed(kind) == \E k \in 1..Len(out) : out[k].kind = kind

\* the text has "pipelines/" at p, followed by a character of [a-f0-9-]
TokenAt(class, lit, s, p) ==
    /\ p >= 1
    /\ p + Len(lit) <= Len(s)
    /\ \A q \in 1..Len(lit) : s[p + q - 1] = lit[q]
    /\ s[p + Len(lit)] \in class
HasToken(class, lit, s) == \E p \in 1..Len(s) : TokenAt(class, lit, s, p)
\* t is the token after the leftmost such place: the longest run of the class
IsLeftmostToken(class, lit, s, t) ==
    \E p \in 1..Len(s) :
        /\ TokenAt(class, lit, s, p)
        /\ \A q \in 1..(p - 1) : ~TokenAt(class, lit, s, q)
        /\ Len(t) >= 1
        /\ p + Len(lit) + Len(t) - 1 <= Len(s)
        /\ \A q \in 1..Len(t) : t[q] = s[p + Len(lit) + q - 1] /\ t[q] \in class
        /\ \/ p + Len(lit) + Len(t) > Len(s)
           \/ s[p + Len(lit) + Len(t)] \notin class

-----------------------------------------------------------------------------
(* C7: warehouse resolution, under SpecWh *)

\* C7: _get_warehouse_id returns DATABRICKS_WAREHOUSE_ID if set and non-empty,
\* without listing; else the id of a /warehouses/<id> segment of
\* DATABRICKS_HTTP_PATH, without listing; else the id of the first listed
\* warehouse that is RUNNING, or of the first listed warehouse if none runs;
\* it raises exactly when no override resolves and the list call raises or
\* returns an empty list.
C7_WarehouseResolution ==
    pc = "returned" =>
        LET wid == fnIn.e.DATABRICKS_WAREHOUSE_ID
            path == IF fnIn.e.DATABRICKS_HTTP_PATH = None THEN <<>>
                    ELSE fnIn.e.DATABRICKS_HTTP_PATH
            ws == fnIn.listResp.warehouses
            byEnv == wid # None /\ Len(wid) > 0
            byPath == ~byEnv /\ HasToken(HexClass, WarehousesLit, path)
            byList == ~byEnv /\ ~byPath
            running == {k \in 1..Len(ws) : ws[k].state = "RUNNING"}
            listed == \E k \in 1..Len(fnOut.calls) : fnOut.calls[k].op = "warehouses.list"
        IN  /\ byEnv => ~fnOut.raised /\ fnOut.id = wid /\ ~listed
            /\ byPath => /\ ~fnOut.raised
                         /\ IsLeftmostToken(HexClass, WarehousesLit, path, fnOut.id)
                         /\ ~listed
            /\ byList => listed
            /\ byList /\ ~fnIn.listResp.raises /\ running # {} =>
                   /\ ~fnOut.raised
                   /\ \E k \in running : /\ \A m \in running : k <= m
                                         /\ fnOut.id = ws[k].id
            /\ byList /\ ~fnIn.listResp.raises /\ running = {} /\ Len(ws) > 0 =>
                   ~fnOut.raised /\ fnOut.id = ws[1].id
            /\ fnOut.raised <=> byList /\ (fnIn.listResp.raises \/ Len(ws) = 0)

\* a stopped warehouse listed before a running one: the running one is returned
C7_Witness ==
    /\ pc = "returned"
    /\ fnIn.e.DATABRICKS_WAREHOUSE_ID = <<>>
    /\ fnIn.e.DATABRICKS_HTTP_PATH = PathUpper
    /\ Len(fnIn.listResp.warehouses) = 2
    /\ fnIn.listResp.warehouses[1].state = "STOPPED"
    /\ fnIn.listResp.warehouses[1].id = W1
    /\ fnOut.id = W2

-----------------------------------------------------------------------------
(* C8, C10: one call of discover_pipeline, under SpecDiscover *)

\* execute_statement was called and returned
QueryReturned ==
    /\ pc = "returned"
    /\ \E k \in 1..Len(fnOut.calls) :
           fnOut.calls[k].op = "execute_statement" /\ ~fnOut.calls[k].raised
RowsOf(resp) == IF resp.kind = "data" THEN resp.rows ELSE <<>>
RowsWithToken ==
    {k \in 1..Len(RowsOf(fnIn.resp)) :
        HasToken(HexHyphenClass, PipelinesLit, PyStr(RowsOf(fnIn.resp)[k]))}

\* C8: discover_pipeline returns the hex/hyphen token following "pipelines/" in
\* the first row whose text contains such a token (rows with "pipelines/" and
\* no token after it are skipped), and returns None without raising when the
\* result has no rows or no row has a token.
C8_FirstMatchingRow ==
    QueryReturned =>
        /\ ~fnOut.raised
        /\ ~fnOut.exited
        /\ IF RowsWithToken = {}
           THEN fnOut.ret = None
           ELSE \E k \in RowsWithToken :
                    /\ \A m \in RowsWithToken : k <= m
                    /\ IsLeftmostToken(HexHyphenClass, PipelinesLit,
                                       PyStr(RowsOf(fnIn.resp)[k]), fnOut.ret)

\* a first row with a bare "pipelines/" is skipped and the second row's id returned
C8_Witness ==
    /\ QueryReturned
    /\ fnIn.resp.rows = <<RowBare, RowUrl>>
    /\ fnOut.ret = <<"3","f","-","9","a">>

\* C10 as stated: when the query succeeded and nothing matched, discover_pipeline
\* prints the "no pipeline found" hint and the manual SQL statement.
C10_HintAndManualSql ==
    QueryReturned /\ fnOut.ret = None =>
        /\ \E k \in 1..Len(fnOut.lines) : fnOut.lines[k].kind = "NoPipelineFound"
        /\ \E k \in 1..Len(fnOut.lines) :
               fnOut.lines[k] = Line("ManualSql", DescribePrefix \o fnIn.view \o <<";">>)

\* C10 amended: when the query succeeded and nothing matched, discover_pipeline
\* prints the "no pipeline found" hint and no manual SQL statement; the manual
\* SQL statement is printed exactly when a remote call of the try block raised
\* (the warehouse could not be resolved or the query raised).
C10_HintOnly ==
    pc = "returned" /\ fnIn.sdk =>
        LET manual == \E k \in 1..Len(fnOut.lines) : fnOut.lines[k].kind = "ManualSql"
            failed == \/ \E k \in 1..Len(fnOut.calls) :
                             /\ fnOut.calls[k].op = "execute_statement"
                             /\ fnOut.calls[k].raised
                      \/ \A k \in 1..Len(fnOut.calls) :
                             fnOut.calls[k].op # "execute_statement"
        IN  /\ QueryReturned /\ fnOut.ret = None =>
                fnOut.lines = <<Line("LookingUp", fnIn.view), Line("NoPipelineFound", <<>>)>>
            /\ manual <=> failed
            /\ manual =>
                \E k \in 1..Len(fnOut.lines) :
                    fnOut.lines[k] = Line("ManualSql", DescribePrefix \o fnIn.view \o <<";">>)

\* the query returned rows, none with a token: the hint alone is printed
C10_Witness ==
    /\ QueryReturned
    /\ fnIn.resp.rows = <<RowPlain, RowSplit>>
    /\ fnOut.ret = None
    /\ Len(fnOut.lines) = 2

-----------------------------------------------------------------------------
(* C1-C6, C9: the whole process, under Spec *)

\* the six lines of a discovery whose try block raised an exception with `msg`
CaughtLines(view, msg) ==
    <<Line("LookingUp", view), Line("Error", msg), Line("Blank", <<>>),
      Line("Alternatively", <<>>),
      Line("ManualSql", DescribePrefix \o view \o <<";">>), Line("LookFor", <<>>)>>

\* this step is a discovery that returned None to a loop that goes on
ReturnedNoneAndGoesOn(msg) ==
    /\ pc' = pc
    /\ exitStatus' = exitStatus
    /\ i' = i + 1
    /\ pipeline_ids' = pipeline_ids
    /\ discovered' = Append(discovered, [view |-> argv[i], ret |-> None])
    /\ out' = out \o CaughtLines(argv[i], msg)

\* C1: in --refresh mode discovery has run for every view, in argument order,
\* before the first start-update call, and the start-update calls are the ids
\* the discoveries returned, in view order, duplicates kept, none for a view
\* whose discovery returned nothing.
C1_RefreshBatch ==
    RefreshMode =>
        /\ IsPrefix(DiscoveredViews, Views)
        /\ Len(StartCalls) > 0 =>
               /\ DiscoveredViews = Views
               /\ \A a, b \in 1..Len(calls) :
                      a < b /\ calls[a].op = "start_update" => calls[b].op = "start_update"
        /\ IsPrefix(StartArgs, ResolvedIds)
        /\ pc = "exit" => StartArgs = ResolvedIds
        /\ pc = "exit" /\ sdkInstalled => DiscoveredViews = Views

\* two views resolved to the same id, and start-update was called twice for it
C1_Witness ==
    /\ RefreshMode
    /\ pc = "exit"
    /\ Len(discovered) = 2
    /\ discovered[1].ret # None
    /\ discovered[2].ret = discovered[1].ret
    /\ StartArgs = <<discovered[1].ret, discovered[1].ret>>

\* C2 as stated: in --refresh mode the exit status is 1 exactly when no view
\* resolved, and then "No pipelines found to refresh." is printed and
\* start-update never called; it is 0 when a view resolved, whether or not the
\* start-update calls raise.
C2_RefreshExitStatus ==
    RefreshMode /\ pc = "exit" =>
        /\ exitStatus = 1 <=> ResolvedIds = <<>>
        /\ ResolvedIds = <<>> => Printed("NoPipelinesToRefresh") /\ StartCalls = <<>>
        /\ ResolvedIds # <<>> => exitStatus = 0

\* C2 amended: the same provided the client library can be imported; when it
\* cannot, the first discovery ends the process with status 1 after the two
\* installation lines, and nothing else is printed or called.
C2_RefreshExitStatusWithClient ==
    RefreshMode /\ pc = "exit" =>
        IF sdkInstalled
        THEN /\ exitStatus = 1 <=> ResolvedIds = <<>>
             /\ ResolvedIds = <<>> =>
                    /\ Printed("NoPipelinesToRefresh")
                    /\ StartCalls = <<>>
             /\ ResolvedIds # <<>> => exitStatus = 0 /\ ~Printed("NoPipelinesToRefresh")
        ELSE /\ exitStatus = 1
             /\ calls = <<>>
             /\ out = <<Line("SdkNotInstalled", <<>>), Line("InstallWith", <<>>)>>

\* a view resolved, every start-update call raised, and the status is 0
C2_Witness ==
    /\ RefreshMode
    /\ pc = "exit"
    /\ exitStatus = 0
    /\ Len(StartCalls) >= 1
    /\ \A k \in 1..Len(StartCalls) : StartCalls[k].raised

\* C3 as stated: in direct mode start-update is called once per argument, in
\* argument order, with the argument as given, no discovery query and no
\* warehouse listing is made, and the process exits 0.
C3_DirectIds ==
    DirectMode =>
        /\ \A k \in 1..Len(calls) : calls[k].op = "start_update"
        /\ IsPrefix(StartArgs, argv)
        /\ pc = "exit" => StartArgs = argv /\ exitStatus = 0

\* C3 amended: the same provided the client library can be imported; when it
\* cannot, no call is made and the process exits 1.
C3_DirectIdsWithClient ==
    DirectMode =>
        /\ \A k \in 1..Len(calls) : calls[k].op = "start_update"
        /\ IsPrefix(StartArgs, argv)
        /\ discovered = <<>>
        /\ pc = "exit" =>
               IF sdkInstalled
               THEN StartArgs = argv /\ exitStatus = 0
               ELSE calls = <<>> /\ exitStatus = 1

\* a later argument spelled --discover and one spelled --refresh were passed on
C3_Witness ==
    /\ DirectMode
    /\ pc = "exit"
    /\ exitStatus = 0
    /\ argv = <<ViewA, DiscoverFlag, RefreshFlag>>
    /\ StartArgs = argv

\* refresh_pipelines has been called
RefreshCalled ==
    \/ pc = "refresh_pipelines"
    \/ pc = "exit" /\ DirectMode
    \/ pc = "exit" /\ RefreshMode /\ i > Len(argv) /\ Len(pipeline_ids) > 0

\* one "Starting" line and one outcome line per call, the outcome the call had
OutcomeLines ==
    LET lines == LinesOf({"StartingRefresh", "RefreshStarted", "RefreshError"})
    IN  /\ Len(lines) = 2 * Len(StartCalls)
        /\ \A k \in 1..Len(StartCalls) :
               /\ lines[2 * k - 1] = Line("StartingRefresh", StartCalls[k].args[1])
               /\ lines[2 * k].kind = IF StartCalls[k].raised THEN "RefreshError"
                                      ELSE "RefreshStarted"

\* C4 as stated: refresh_pipelines attempts start-update once for every id, in
\* list order, whichever of the calls raise, prints one outcome line per id and
\* returns normally.
C4_RefreshLoop ==
    RefreshCalled =>
        /\ IsPrefix(StartArgs, pipeline_ids)
        /\ OutcomeLines
        /\ pc = "exit" => StartArgs = pipeline_ids /\ exitStatus = 0

\* C4 amended: the same provided the client library can be imported; when it
\* cannot, refresh_pipelines ends the process with status 1 before any call.
C4_RefreshLoopWithClient ==
    RefreshCalled =>
        /\ IsPrefix(StartArgs, pipeline_ids)
        /\ OutcomeLines
        /\ pc = "refresh_pipelines" => Len(StartCalls) = j - 1
        /\ pc = "exit" =>
               IF sdkInstalled
               THEN StartArgs = pipeline_ids /\ exitStatus = 0
               ELSE StartCalls = <<>> /\ exitStatus = 1

\* the first call raised and the second was still made and succeeded
C4_Witness ==
    /\ RefreshCalled
    /\ pc = "exit"
    /\ Len(StartCalls) >= 2
    /\ StartCalls[1].raised
    /\ ~StartCalls[2].raised
    /\ exitStatus = 0

\* this step made an execute_statement call that raised
QueryRaisedInStep ==
    /\ Len(calls') > Len(calls)
    /\ calls'[Len(calls')].op = "execute_statement"
    /\ calls'[Len(calls')].raised

QueryRaised ==
    \E k \in 1..Len(calls) : calls[k].op = "execute_statement" /\ calls[k].raised

\* C5: when the DESCRIBE EXTENDED call of a view raises, discover_pipeline
\* reports it and returns None, the loop goes on to the later views, in
\* argument order, and in --refresh mode refresh runs for the ids the other
\* views resolved.
C5_QueryFailureIsolated ==
    /\ [][QueryRaisedInStep => ReturnedNoneAndGoesOn(Boom)]_vars
    /\ [](QueryRaised /\ pc = "exit" =>
              /\ DiscoveredViews = Views
              /\ exitStatus = IF RefreshMode /\ ResolvedIds = <<>> THEN 1 ELSE 0
              /\ RefreshMode => StartArgs = ResolvedIds)

\* the query of the first view raised, the second view resolved and was refreshed
C5_Witness ==
    /\ RefreshMode
    /\ pc = "exit"
    /\ Len(discovered) = 2
    /\ calls[1].op = "execute_statement"
    /\ calls[1].raised
    /\ discovered[2].ret # None
    /\ StartArgs = <<discovered[2].ret>>

\* the warehouse resolution of call k's discovery failed: the listing was not
\* followed by a query
ResolutionFailedAt(k) ==
    /\ calls[k].op = "warehouses.list"
    /\ k = Len(calls) \/ calls[k + 1].op # "execute_statement"

\* C6 as stated: a failed warehouse resolution leaves discover_pipeline and
\* aborts the loop: nothing is attempted after it.
C6_ResolutionAborts ==
    \A k \in 1..Len(calls) : ResolutionFailedAt(k) => k = Len(calls)

\* C6 amended: the resolution error is raised inside the try block of
\* discover_pipeline and caught by its handler: it is reported like a query
\* failure, discover_pipeline returns None, and the loop goes on to the
\* remaining views.
C6_ResolutionCaught ==
    /\ [][Len(calls') = Len(calls) + 1 /\ ResolutionFailedAt(Len(calls))'
            => ReturnedNoneAndGoesOn(ResolutionMsg)]_vars
    /\ []((\E k \in 1..Len(calls) : ResolutionFailedAt(k)) /\ pc = "exit"
             => DiscoveredViews = Views)

\* the resolution failed for the first view and the second was still queried
C6_Witness ==
    /\ Len(calls) >= 3
    /\ ResolutionFailedAt(1)
    /\ calls[3].op = "execute_statement"
    /\ Len(discovered) = 2
    /\ discovered[1].ret = None

\* C9: in --discover mode, the client library importable, discovery runs once
\* for each view in argument order, start-update is never called, and the exit
\* status is 0 whatever was found.
C9_DiscoverOnly ==
    DiscoverMode /\ sdkInstalled =>
        /\ IsPrefix(DiscoveredViews, Views)
        /\ LinesOf({"LookingUp"}) =
               [k \in 1..Len(discovered) |-> Line("LookingUp", discovered[k].view)]
        /\ StartCalls = <<>>
        /\ pipeline_ids = <<>>
        /\ pc = "exit" => DiscoveredViews = Views /\ exitStatus = 0

\* two views, none resolved, exit status 0
C9_Witness ==
    /\ DiscoverMode
    /\ pc = "exit"
    /\ exitStatus = 0
    /\ Len(discovered) = 2
    /\ discovered[1].ret = None
    /\ discovered[2].ret = None

====
